---- MODULE Spec2Model ----
(***************************************************************************)
(* Model of generator/generator.py: the player pool, generate_event, the   *)
(* connection retry loop, insert_event and the main loop with its          *)
(* except/finally teardown.                                                *)
(*                                                                         *)
(* KeyboardInterrupt is raised asynchronously by the interpreter, so the   *)
(* model lets it arrive between the statements of generate_event and       *)
(* after the commit inside insert_event as well as between the calls of    *)
(* the loop body.  One stop signal is modelled per run.                    *)
(***************************************************************************)
EXTENDS Integers, Sequences, FiniteSets, TLC

VARIABLES
    pc,            \* position of main()
    size,          \* the pool size main() passes to init_player_pool
    PLAYER_POOL,   \* the global list of player dicts
    attempt,       \* connect_to_db: loop variable `attempt` (while it runs)
    slept,         \* connect_to_db: the delays it has slept (while it runs)
    conn,          \* "none" | "open" | "closed"
    fatal,         \* the exception that left main() before the loop, or "none"
    event,         \* main: local `event`, <<>> before the first one
    event_count,   \* main: local `event_count`
    stat_reports,  \* event_count values printed by the periodic report
    final_report,  \* <<event_count>> printed by the finally block, or <<>>
    ended,         \* how the loop ended: "none" | "KeyboardInterrupt" | "Exception"
    budget,        \* events the model will still generate (bounds the run)
    generated,     \* history: generate_event calls that returned
    handed,        \* history: events passed to insert_event
    committed,     \* history: events whose INSERT was committed
    write_failed,  \* history: events whose INSERT raised inside insert_event
    event_points,  \* history: per pool index, sum of points of returned events
    rolled,        \* history: whether the 5% roll of the last returned call fired
    choice,        \* generate_event: <<>>, or the cell random() * total fell
                   \* in and the action_type random.choices returned for it
    max_tries,     \* connect_to_db: the max_retries argument of the call
    top_lines,     \* print_statistics: the lines of the last top-3 list,
                   \* each a player and its kd_ratio
    in_flight      \* history: 0, or the number of mutating statements a
                   \* generate_event call had run when it was interrupted

vars == <<pc, size, PLAYER_POOL, attempt, slept, conn, fatal, event, event_count,
          stat_reports, final_report, ended, budget, generated, handed,
          committed, write_failed, event_points, rolled, choice, max_tries,
          top_lines, in_flight>>

(***************************** bounds **************************************)
\* main passes 50 to init_player_pool; the model runs pools of 1..MaxPool
MaxPool == 2
\* the loop of main never ends by itself; the model follows MaxEvents calls
\* of generate_event
MaxEvents == 2
\* connect_to_db is also checked for calls with max_retries = 1..MaxRetriesArg
MaxRetriesArg == 3
\* print_statistics is checked on pools of 1..MaxStatsPool players
MaxStatsPool == 4

(************************** configuration **********************************)
WEAPONS == <<"AK-47", "M4A4", "M4A1-S", "AWP", "Desert Eagle",
             "P90", "UMP-45", "MP7", "Glock-18", "USP-S",
             "FAMAS", "Galil AR", "SSG 08", "Knife", "Grenade">>

MAPS == <<"de_dust2", "de_inferno", "de_mirage", "de_nuke",
          "de_train", "de_overpass", "de_vertigo", "de_ancient">>

ACTION_TYPES ==
    [kill        |-> [weight |-> 35, points_range |-> <<10, 30>>],
     death       |-> [weight |-> 35, points_range |-> <<-25, -10>>],
     headshot    |-> [weight |-> 10, points_range |-> <<40, 60>>],
     assist      |-> [weight |-> 8,  points_range |-> <<5, 15>>],
     achievement |-> [weight |-> 7,  points_range |-> <<50, 150>>],
     level_up    |-> [weight |-> 3,  points_range |-> <<100, 250>>],
     defuse_bomb |-> [weight |-> 2,  points_range |-> <<80, 120>>]]

None == "None"

INIT_LEVEL_MIN == 1
INIT_LEVEL_MAX == 50
LEVEL_CAP == 100
max_retries == 10
retry_delay == 5
STATS_PERIOD == 50
\* print_statistics keeps the first 3 players of the sorted pool
TOP_N == 3
ID_WIDTH == 4

(***************************** draws ***************************************)
\* random.randint(1, 50): the two ends of the range
InitLevels == {INIT_LEVEL_MIN, INIT_LEVEL_MAX}

\* fake.user_name(): any name, not necessarily unique
Names == {"neo", "trinity"}

\* random.choices(action_types, weights): any action of positive weight
ActionDraws == {a \in DOMAIN ACTION_TYPES : ACTION_TYPES[a].weight > 0}

\* mutant: the upper end is passed one too high
PointsDraws_PastMax(a) ==
    {ACTION_TYPES[a].points_range[1], ACTION_TYPES[a].points_range[2] + 1}

\* random.randint(points_min, points_max): the two ends of the range
PointsDraws(a) == {ACTION_TYPES[a].points_range[1], ACTION_TYPES[a].points_range[2]}

\* random.choice(WEAPONS), random.choice(MAPS): the first and the last item
WeaponDraws == {WEAPONS[1], WEAPONS[Len(WEAPONS)]}
MapDraws == {MAPS[1], MAPS[Len(MAPS)]}

(************************** init_player_pool *******************************)
RECURSIVE Digits(_)
Digits(n) == IF n < 10 THEN <<n>> ELSE Append(Digits(n \div 10), n % 10)

RECURSIVE ZeroPad(_, _)
ZeroPad(ds, w) == IF Len(ds) >= w THEN ds ELSE ZeroPad(<<0>> \o ds, w)

\* f'PLAYER_{i:04d}'
PlayerId(i) == [prefix |-> "PLAYER_", digits |-> ZeroPad(Digits(i), ID_WIDTH)]

\* mutant: the id is formatted from a constant instead of the loop index
NewPlayer_SameId(i, name, level) ==
    [player_id    |-> PlayerId(0),
     player_name  |-> name,
     level        |-> level,
     total_points |-> 0,
     kills        |-> 0,
     deaths       |-> 0]

NewPlayer(i, name, level) ==
    [player_id    |-> PlayerId(i),
     player_name  |-> name,
     level        |-> level,
     total_points |-> 0,
     kills        |-> 0,
     deaths       |-> 0]

\* the players init_player_pool(n) appends; names are uninterpreted, so the
\* first draw is fixed and the later ones repeat it or differ from it
NewPools(n) ==
    {[k \in 1..n |-> NewPlayer(k - 1, nm[k], lv[k])] :
        nm \in {f \in [1..n -> Names] : f[1] = "neo"}, lv \in [1..n -> InitLevels]}

(**************************** generate_event *******************************)
\* action_types = list(ACTION_TYPES.keys()): the keys in the order of the dict
action_types ==
    <<"kill", "death", "headshot", "assist", "achievement", "level_up",
      "defuse_bomb">>

\* weights = [ACTION_TYPES[a]['weight'] for a in action_types]
weights == [k \in 1..Len(action_types) |-> ACTION_TYPES[action_types[k]].weight]

\* the running sums random.choices takes of its weights
RECURSIVE CumWeight(_)
CumWeight(k) == IF k = 0 THEN 0 ELSE CumWeight(k - 1) + weights[k]

TotalWeight == CumWeight(Len(action_types))

\* random() * total lies in [0, total); the weights are integers, so the
\* outcome depends on its integer part only, and the cells 0..total-1 are
\* equally likely
Cells == 0..(TotalWeight - 1)

\* mutant: the weights are ignored (random.choice over the names)
Choices_Unweighted(r) == action_types[(r % Len(action_types)) + 1]

\* random.choices(action_types, weights=weights)[0]: the first name whose
\* running sum exceeds random() * total
Choices(r) ==
    action_types[CHOOSE k \in 1..Len(action_types) :
                    CumWeight(k - 1) <= r /\ r < CumWeight(k)]

\* mutant: = in place of +=
AddPoints_Replace(p, points) == [p EXCEPT !.total_points = points]

\* player['total_points'] += points
AddPoints(p, points) == [p EXCEPT !.total_points = @ + points]

\* mutant: the headshot test is dropped
UpdateKD_NoHeadshot(p, a) ==
    IF a = "kill" THEN [p EXCEPT !.kills = @ + 1]
    ELSE IF a = "death" THEN [p EXCEPT !.deaths = @ + 1]
    ELSE p

\* kill/headshot count a kill, death counts a death
UpdateKD(p, a) ==
    IF a = "kill" \/ a = "headshot" THEN [p EXCEPT !.kills = @ + 1]
    ELSE IF a = "death" THEN [p EXCEPT !.deaths = @ + 1]
    ELSE p

\* mutant: the level < 100 test is dropped
LevelUp_NoCap(p, a, roll) ==
    IF a = "level_up" \/ roll THEN [p EXCEPT !.level = @ + 1] ELSE p

\* mutant: two independent increments, one for the action and one for the
\* roll, in place of one increment guarded by their disjunction
LevelUp_Twice(p, a, roll) ==
    LET p1 == IF a = "level_up" /\ p.level < LEVEL_CAP
              THEN [p EXCEPT !.level = @ + 1] ELSE p
    IN  IF roll /\ p1.level < LEVEL_CAP THEN [p1 EXCEPT !.level = @ + 1] ELSE p1

\* level_up action or the 5% roll, capped at 100
LevelUp(p, a, roll) ==
    IF a = "level_up" \/ roll
    THEN IF p.level < LEVEL_CAP THEN [p EXCEPT !.level = @ + 1] ELSE p
    ELSE p

\* the first k of the three mutating statements of generate_event
Mutate(p, a, points, roll, k) ==
    LET p1 == AddPoints(p, points)
        p2 == IF k >= 2 THEN UpdateKD(p1, a) ELSE p1
        p3 == IF k >= 3 THEN LevelUp(p2, a, roll) ELSE p2
    IN  p3

\* mutant: every entry of the pool is one and the same dict
StorePlayer_Aliased(pool, i, p) == [j \in 1..Len(pool) |-> p]

\* player = random.choice(PLAYER_POOL) is a reference to the i-th dict of the
\* list: what is assigned through it shows in the pool at that index
StorePlayer(pool, i, p) == [pool EXCEPT ![i] = p]

\* mutant: the weapon is drawn for every action
WeaponFor_Always(a, w) == w

\* weapon only for the combat actions
WeaponFor(a, w) == IF a \in {"kill", "headshot", "death"} THEN w ELSE None

\* mutant: the event dict is built before the level-up statements, so a
\* level_up event carries the level the player had on entry
MakeEvent_BeforeLevelUp(p, a, points, weapon, map_name) ==
    [player_id   |-> p.player_id,
     player_name |-> p.player_name,
     action_type |-> a,
     points      |-> points,
     level       |-> IF a = "level_up" THEN p.level - 1 ELSE p.level,
     weapon      |-> weapon,
     map_name    |-> map_name]

\* the event dict, built from the player after the mutating statements
MakeEvent(p, a, points, weapon, map_name) ==
    [player_id   |-> p.player_id,
     player_name |-> p.player_name,
     action_type |-> a,
     points      |-> points,
     level       |-> p.level,
     weapon      |-> weapon,
     map_name    |-> map_name]

\* pool indexes of the players an event names
Holders(pool, e) == {i \in 1..Len(pool) : pool[i].player_id = e.player_id}

(***************************** connect_to_db *******************************)
\* mutant: the last attempt is retried like the others
OnOperationalError_AlwaysRetry(a) == "retry"

\* mutant: the attempt is compared with the default, not with the argument
OnOperationalError_DefaultLimit(a) == IF a < max_retries THEN "retry" ELSE "raise"

\* what the except clause does with an OperationalError on this attempt
OnOperationalError(a) == IF a < max_tries THEN "retry" ELSE "raise"

(**************************** print_statistics *****************************)
\* mutant: the player goes before the players of equal total_points
InsertByPoints_BeforeEqual(sorted, p) ==
    LET k == Cardinality({j \in 1..Len(sorted) :
                             sorted[j].total_points > p.total_points})
    IN  SubSeq(sorted, 1, k) \o <<p>> \o SubSeq(sorted, k + 1, Len(sorted))

\* one step of the stable descending sort: p goes after every player whose
\* total_points are at least its own
InsertByPoints(sorted, p) ==
    LET k == Cardinality({j \in 1..Len(sorted) :
                             sorted[j].total_points >= p.total_points})
    IN  SubSeq(sorted, 1, k) \o <<p>> \o SubSeq(sorted, k + 1, Len(sorted))

\* sorted(pool[1..n], key=lambda p: p['total_points'], reverse=True); the
\* sorted prefix is computed once and then extended
RECURSIVE SortedByPoints(_, _)
SortedByPoints(pool, n) ==
    IF n = 0 THEN <<>>
    ELSE CHOOSE r \in {InsertByPoints(prefix, pool[n]) :
                          prefix \in {SortedByPoints(pool, n - 1)}} : TRUE

\* sorted(PLAYER_POOL, ...)[:3]
TopPlayers(pool) ==
    SubSeq(SortedByPoints(pool, Len(pool)), 1,
           IF Len(pool) < TOP_N THEN Len(pool) ELSE TOP_N)

\* a / b of two ints: a ratio, or ZeroDivisionError
TrueDiv(a, b) ==
    IF b = 0 THEN [error |-> "ZeroDivisionError"] ELSE [num |-> a, den |-> b]

\* mutant: the deaths > 0 test is dropped
KdRatio_Unguarded(p) == TrueDiv(p.kills, p.deaths)

\* kd_ratio = p['kills'] / p['deaths'] if p['deaths'] > 0 else p['kills']
KdRatio(p) ==
    IF p.deaths > 0 THEN TrueDiv(p.kills, p.deaths)
    ELSE [num |-> p.kills, den |-> 1]

\* the top-3 lines print_statistics prints
TopLines(pool) ==
    CHOOSE lines \in
        {[k \in DOMAIN top |-> [player |-> top[k], kd_ratio |-> KdRatio(top[k])]] :
            top \in {TopPlayers(pool)}} : TRUE

(******************************** main *************************************)
\* mutant: the periodic report is tested outside the `if insert_event(...)`
ReportDue_Dedented(ok, count) == count % STATS_PERIOD = 0

\* the periodic report is inside the branch of a successful insert
ReportDue(ok, count) == ok /\ count % STATS_PERIOD = 0

\* where an exception raised inside the try block of main continues
AfterLoop == "finally"
\* mutant: the finally block ends after the statistics
AfterFinalStats_NoClose == "done"
AfterFinalStats == "close"

LoopPcs == {"generate", "insert", "sleep"}
TeardownPcs == {"finally", "close", "done"}

Init ==
    /\ top_lines = <<>>
    /\ max_tries = max_retries
    /\ choice = <<>>
    /\ rolled = FALSE
    /\ pc = "init"
    /\ size \in 1..MaxPool
    /\ PLAYER_POOL = <<>>
    /\ attempt = 1
    /\ slept = <<>>
    /\ conn = "none"
    /\ fatal = "none"
    /\ event = <<>>
    /\ event_count = 0
    /\ stat_reports = <<>>
    /\ final_report = <<>>
    /\ ended = "none"
    /\ budget = MaxEvents
    /\ generated = 0
    /\ handed = 0
    /\ committed = 0
    /\ write_failed = 0
    /\ event_points = <<>>
    /\ in_flight = 0

\* main: init_player_pool(size)
InitPlayerPool ==
    /\ pc = "init"
    /\ \E pool \in NewPools(size) :
         /\ PLAYER_POOL' = PLAYER_POOL \o pool
         /\ event_points' = [i \in 1..Len(PLAYER_POOL \o pool) |-> 0]
    /\ pc' = "connect"
    /\ UNCHANGED <<size, top_lines, max_tries, choice, rolled, in_flight,
                   attempt, slept, conn, fatal, event, event_count,
                   stat_reports, final_report, ended, budget, generated,
                   handed, committed, write_failed>>

\* connect_to_db: one pass of the retry loop
ConnectToDb ==
    /\ pc = "connect"
    /\ \E outcome \in {"connected", "OperationalError", "OtherError"} :
         CASE outcome = "connected" ->
                \* return conn: the frame of connect_to_db is dropped
                /\ conn' = "open"
                /\ pc' = "generate"
                /\ attempt' = 1
                /\ slept' = <<>>
                /\ UNCHANGED fatal
           [] outcome = "OperationalError" ->
                IF OnOperationalError(attempt) = "retry"
                THEN /\ slept' = Append(slept, retry_delay)
                     /\ attempt' = attempt + 1
                     \* range(1, max_retries + 1) used up: the function
                     \* falls off its end and returns None
                     /\ pc' = IF attempt < max_tries THEN pc ELSE "generate"
                     /\ UNCHANGED <<conn, fatal>>
                ELSE /\ pc' = "fatal"
                     /\ fatal' = "OperationalError"
                     /\ UNCHANGED <<conn, attempt, slept>>
           [] outcome = "OtherError" ->
                /\ pc' = "fatal"
                /\ fatal' = "OtherError"
                /\ UNCHANGED <<conn, attempt, slept>>
    /\ UNCHANGED <<size, top_lines, max_tries, choice, rolled, in_flight,
                   PLAYER_POOL, event, event_count, stat_reports,
                   final_report, ended, budget, generated, handed, committed,
                   write_failed, event_points>>

\* main: event = generate_event()
GenerateEvent ==
    /\ pc = "generate"
    /\ budget > 0
    /\ \E i \in 1..Len(PLAYER_POOL), a \in ActionDraws, roll \in BOOLEAN,
          w \in WeaponDraws, m \in MapDraws :
         \E points \in PointsDraws(a) :
            LET p == Mutate(PLAYER_POOL[i], a, points, roll, 3)
                e == MakeEvent(p, a, points, WeaponFor(a, w), m)
                pool == StorePlayer(PLAYER_POOL, i, p)
            IN  /\ PLAYER_POOL' = pool
                /\ event' = <<e>>
                /\ event_points' =
                     [j \in DOMAIN event_points |->
                        IF j \in Holders(pool, e)
                        THEN event_points[j] + e.points ELSE event_points[j]]
                /\ rolled' = roll
    /\ generated' = generated + 1
    /\ budget' = budget - 1
    /\ pc' = "insert"
    /\ UNCHANGED <<size, top_lines, max_tries, choice, in_flight, attempt,
                   slept, conn, fatal, event_count, stat_reports,
                   final_report, ended, handed, committed, write_failed>>

\* main: insert_event(conn, event) and the accounting that follows it
InsertEvent ==
    /\ pc = "insert"
    /\ handed' = handed + 1
    /\ \E outcome \in {"committed", "failed", "rollback_failed"} :
         CASE outcome = "committed" ->
                /\ committed' = committed + 1
                /\ event_count' = event_count + 1
                /\ IF ReportDue(TRUE, event_count + 1)
                   THEN /\ stat_reports' = Append(stat_reports, event_count + 1)
                        /\ top_lines' = TopLines(PLAYER_POOL)
                   ELSE UNCHANGED <<stat_reports, top_lines>>
                /\ pc' = "sleep"
                /\ UNCHANGED <<ended, write_failed>>
           [] outcome = "failed" ->
                /\ write_failed' = write_failed + 1
                /\ IF ReportDue(FALSE, event_count)
                   THEN /\ stat_reports' = Append(stat_reports, event_count)
                        /\ top_lines' = TopLines(PLAYER_POOL)
                   ELSE UNCHANGED <<stat_reports, top_lines>>
                /\ pc' = "sleep"
                /\ UNCHANGED <<committed, event_count, ended>>
           [] outcome = "rollback_failed" ->
                /\ write_failed' = write_failed + 1
                /\ pc' = AfterLoop
                /\ ended' = "Exception"
                /\ UNCHANGED <<committed, event_count, stat_reports, top_lines>>
    /\ UNCHANGED <<size, max_tries, choice, rolled, in_flight, PLAYER_POOL,
                   attempt, slept, conn, fatal, event, final_report, budget,
                   generated, event_points>>

\* main: time.sleep(EVENT_INTERVAL)
Sleep ==
    /\ pc = "sleep"
    /\ pc' = "generate"
    /\ UNCHANGED <<size, top_lines, max_tries, choice, rolled, in_flight,
                   PLAYER_POOL, attempt, slept, conn, fatal, event,
                   event_count, stat_reports, final_report, ended, budget,
                   generated, handed, committed, write_failed, event_points>>

\* KeyboardInterrupt between the calls of the loop body or during the sleep
KeyboardInterrupt ==
    /\ pc \in LoopPcs
    /\ pc' = AfterLoop
    /\ ended' = "KeyboardInterrupt"
    /\ UNCHANGED <<size, top_lines, max_tries, choice, rolled, in_flight,
                   PLAYER_POOL, attempt, slept, conn, fatal, event,
                   event_count, stat_reports, final_report, budget, generated,
                   handed, committed, write_failed, event_points>>

\* KeyboardInterrupt inside generate_event, after k of its mutating statements
InterruptInGenerate ==
    /\ pc = "generate"
    /\ budget > 0
    /\ \E i \in 1..Len(PLAYER_POOL), a \in ActionDraws, roll \in BOOLEAN,
          k \in 1..3 :
         \E points \in PointsDraws(a) :
            /\ PLAYER_POOL' =
                 StorePlayer(PLAYER_POOL, i, Mutate(PLAYER_POOL[i], a, points, roll, k))
            /\ in_flight' = k
    /\ budget' = budget - 1
    /\ pc' = AfterLoop
    /\ ended' = "KeyboardInterrupt"
    /\ UNCHANGED <<size, top_lines, max_tries, choice, rolled, attempt, slept,
                   conn, fatal, event, event_count, stat_reports,
                   final_report, generated, handed, committed, write_failed,
                   event_points>>

\* KeyboardInterrupt inside insert_event, after conn.commit()
InterruptAfterCommit ==
    /\ pc = "insert"
    /\ handed' = handed + 1
    /\ committed' = committed + 1
    /\ pc' = AfterLoop
    /\ ended' = "KeyboardInterrupt"
    /\ UNCHANGED <<size, top_lines, max_tries, choice, rolled, in_flight,
                   PLAYER_POOL, attempt, slept, conn, fatal, event,
                   event_count, stat_reports, final_report, budget, generated,
                   write_failed, event_points>>

\* KeyboardInterrupt in main after event_count += 1 and before the test of
\* the periodic report (while the event line is printed)
InterruptBeforeReport ==
    /\ pc = "insert"
    /\ handed' = handed + 1
    /\ committed' = committed + 1
    /\ event_count' = event_count + 1
    /\ pc' = AfterLoop
    /\ ended' = "KeyboardInterrupt"
    /\ UNCHANGED <<size, top_lines, max_tries, choice, rolled, in_flight,
                   PLAYER_POOL, attempt, slept, conn, fatal, event,
                   stat_reports, final_report, budget, generated,
                   write_failed, event_points>>

\* finally: print_statistics(event_count, start_time)
FinalStats ==
    /\ pc = "finally"
    /\ final_report' = <<event_count>>
    /\ top_lines' = TopLines(PLAYER_POOL)
    /\ pc' = AfterFinalStats
    /\ UNCHANGED <<size, max_tries, choice, rolled, in_flight, PLAYER_POOL,
                   attempt, slept, conn, fatal, event, event_count,
                   stat_reports, ended, budget, generated, handed, committed,
                   write_failed, event_points>>

\* finally: conn.close()
CloseConn ==
    /\ pc = "close"
    /\ conn' = "closed"
    /\ pc' = "done"
    /\ UNCHANGED <<size, top_lines, max_tries, choice, rolled, in_flight,
                   PLAYER_POOL, attempt, slept, fatal, event, event_count,
                   stat_reports, final_report, ended, budget, generated,
                   handed, committed, write_failed, event_points>>

\* the try block of main and its handlers
\* generate_event, lines 176-178: the weighted draw of the action type
ChooseAction ==
    /\ pc = "choices"
    /\ \E r \in Cells :
          choice' = <<[cell |-> r, action_type |-> Choices(r)]>>
    /\ pc' = "points"
    /\ UNCHANGED <<size, top_lines, max_tries, rolled, in_flight, PLAYER_POOL,
                   attempt, slept, conn, fatal, event, event_count,
                   stat_reports, final_report, ended, budget, generated,
                   handed, committed, write_failed, event_points>>

LoopNext ==
    \/ GenerateEvent
    \/ InsertEvent
    \/ Sleep
    \/ KeyboardInterrupt
    \/ InterruptInGenerate
    \/ InterruptAfterCommit
    \/ InterruptBeforeReport
    \/ FinalStats
    \/ CloseConn

Next ==
    \/ InitPlayerPool
    \/ ConnectToDb
    \/ LoopNext

Spec == Init /\ [][Next]_vars

\* the statements of the finally block run one after the other
FairSpec == Spec /\ WF_vars(FinalStats) /\ WF_vars(CloseConn)

(********************** a pool late in a long run ***************************)
\* the player after n further level_up events of the least points, none of
\* them with the 5% roll
RECURSIVE AfterLevelUps(_, _)
AfterLevelUps(p, n) ==
    IF n = 0 THEN p
    ELSE CHOOSE r \in {AfterLevelUps(q, n - 1) :
                          q \in {Mutate(p, "level_up",
                                        ACTION_TYPES["level_up"].points_range[1],
                                        FALSE, 3)}} : TRUE

\* the numbers of level_up events that bring a player created at the highest
\* initial level to one below the cap and to the cap
LongRuns == {LEVEL_CAP - INIT_LEVEL_MAX - 1, LEVEL_CAP - INIT_LEVEL_MAX}

\* The loop after n iterations that each chose the first player and level_up
\* and whose insert failed with a clean rollback: a state Spec reaches after
\* 3n + 2 steps, entered here directly.
InitLate ==
    /\ top_lines = <<>>
    /\ max_tries = max_retries
    /\ choice = <<>>
    /\ rolled = FALSE
    /\ pc = "generate"
    /\ size \in 1..MaxPool
    /\ attempt = 1
    /\ slept = <<>>
    /\ conn = "open"
    /\ fatal = "none"
    /\ event_count = 0
    /\ stat_reports = <<>>
    /\ final_report = <<>>
    /\ ended = "none"
    /\ budget = MaxEvents
    /\ committed = 0
    /\ in_flight = 0
    /\ \E n \in LongRuns :
         \E pool \in NewPools(size) :
            LET p == AfterLevelUps(pool[1], n)
            IN  /\ PLAYER_POOL = [pool EXCEPT ![1] = p]
                /\ event = <<MakeEvent(p, "level_up",
                                       ACTION_TYPES["level_up"].points_range[1],
                                       WeaponFor("level_up", WEAPONS[1]), MAPS[1])>>
                /\ event_points =
                     [i \in 1..size |-> IF i = 1 THEN p.total_points ELSE 0]
                /\ generated = n
                /\ handed = n
                /\ write_failed = n

SpecLate == InitLate /\ [][LoopNext]_vars

(******************************* claims *************************************)
Range(f) == {f[i] : i \in DOMAIN f}
Players == 1..Len(PLAYER_POOL)

\* C1: as long as no generate_event call was cut short, every player's
\* total_points is the sum of the points of the events generated for that
\* player's id, whether or not their inserts succeeded; it is 0 before the
\* first event.
C1_TotalPointsIsSumOfEvents ==
    in_flight = 0 =>
        /\ DOMAIN event_points = Players
        /\ \A i \in Players : PLAYER_POOL[i].total_points = event_points[i]
        /\ generated = 0 => \A i \in Players : PLAYER_POOL[i].total_points = 0

\* two deaths for the first player, one of them not inserted, none for the second
C1_Witness ==
    /\ generated = 2 /\ write_failed = 1 /\ committed = 1 /\ in_flight = 0
    /\ Len(PLAYER_POOL) = 2
    /\ PLAYER_POOL[1].total_points = -35
    /\ PLAYER_POOL[2].total_points = 0

\* C2: every player's level stays within 1..100 and no step lowers it, also
\* when a level-up trigger fires for a player already at 100.
C2_LevelBoundedAndMonotone ==
    /\ [](\A i \in Players : PLAYER_POOL[i].level \in 1..LEVEL_CAP)
    /\ [][/\ Len(PLAYER_POOL') = Len(PLAYER_POOL)
          /\ \A i \in Players : PLAYER_POOL'[i].level >= PLAYER_POOL[i].level]_vars

\* a level_up event returned for the first player, who was at 100 before it
C2_Witness ==
    /\ generated = LEVEL_CAP - INIT_LEVEL_MAX + 1
    /\ pc = "insert"
    /\ event[1].action_type = "level_up"
    /\ event[1].player_id = PLAYER_POOL[1].player_id
    /\ event[1].level = LEVEL_CAP
    /\ PLAYER_POOL[1].level = LEVEL_CAP
    /\ budget = MaxEvents - 1

\* C3: a generate_event call that returns a kill or headshot event adds one
\* kill and no death to the player it names, a death event one death and no
\* kill, any other event neither; no other player's counters move.
C3_KillDeathCounters ==
    [][generated' = generated + 1 =>
        LET e == event'[1]
            combat == IF e.action_type \in {"kill", "headshot"} THEN 1 ELSE 0
            died == IF e.action_type = "death" THEN 1 ELSE 0
        IN  \A i \in Players :
               IF i \in Holders(PLAYER_POOL', e)
               THEN /\ PLAYER_POOL'[i].kills = PLAYER_POOL[i].kills + combat
                    /\ PLAYER_POOL'[i].deaths = PLAYER_POOL[i].deaths + died
               ELSE /\ PLAYER_POOL'[i].kills = PLAYER_POOL[i].kills
                    /\ PLAYER_POOL'[i].deaths = PLAYER_POOL[i].deaths]_vars

\* a headshot just returned for a player who died once before
C3_Witness ==
    /\ pc = "insert" /\ generated = 2
    /\ event[1].action_type = "headshot"
    /\ \E i \in Holders(PLAYER_POOL, event[1]) :
          PLAYER_POOL[i].kills = 1 /\ PLAYER_POOL[i].deaths = 1

\* C4: an event has a weapon, one of WEAPONS, exactly when its action is
\* kill, headshot or death, and always has a map of MAPS.
C4_WeaponIffCombat ==
    \A e \in Range(event) :
        /\ (e.weapon # None) <=> (e.action_type \in {"kill", "headshot", "death"})
        /\ e.weapon # None => e.weapon \in Range(WEAPONS)
        /\ e.map_name \in Range(MAPS)

\* a death event carrying the last weapon of the list
C4_Witness ==
    /\ event # <<>>
    /\ event[1].action_type = "death"
    /\ event[1].weapon = WEAPONS[Len(WEAPONS)]
    /\ event[1].map_name = MAPS[Len(MAPS)]

\* C5: when init_player_pool(size) has run the pool holds exactly size
\* players with pairwise distinct ids; before any event each has a level in
\* 1..50 and zero total_points, kills and deaths.
C5_InitPlayerPool ==
    pc # "init" =>
        /\ Len(PLAYER_POOL) = size
        /\ \A i, j \in Players :
              PLAYER_POOL[i].player_id = PLAYER_POOL[j].player_id => i = j
        /\ (generated = 0 /\ in_flight = 0) =>
              \A i \in Players :
                 /\ PLAYER_POOL[i].level \in INIT_LEVEL_MIN..INIT_LEVEL_MAX
                 /\ PLAYER_POOL[i].total_points = 0
                 /\ PLAYER_POOL[i].kills = 0
                 /\ PLAYER_POOL[i].deaths = 0

\* two players of the same name at the two ends of the level range
C5_Witness ==
    /\ pc = "connect"
    /\ Len(PLAYER_POOL) = 2 /\ size = 2
    /\ PLAYER_POOL[1].player_name = PLAYER_POOL[2].player_name
    /\ PLAYER_POOL[1].level = INIT_LEVEL_MIN
    /\ PLAYER_POOL[2].level = INIT_LEVEL_MAX
    /\ PLAYER_POOL[2].player_id.digits = <<0, 0, 0, 1>>

\* C6: event_count is the number of events whose insert succeeded, here the
\* number of committed INSERTs, and never more than the number of events
\* generated; a failed insert leaves it as it was.
C6_EventCountIsSucceededInserts ==
    /\ event_count = committed
    /\ event_count <= generated

\* the part of C6 about the failing insert itself: the counter and the
\* players are left as they were
FailedInsertChangesNothing ==
    [][write_failed' = write_failed + 1 =>
        /\ event_count' = event_count
        /\ PLAYER_POOL' = PLAYER_POOL
        /\ event_count' < generated']_vars

\* C7: a database write that fails inside insert_event never ends the loop:
\* main goes on to the sleep and the next cycle.
C7_WriteFailureContained ==
    [][write_failed' = write_failed + 1 => (pc' = "sleep" /\ ended' = "none")]_vars

\* C8: connect_to_db makes at most max_retries attempts and sleeps retry_delay
\* between two of them; the loop runs only with a connection; when the last
\* attempt fails main ends before any event is generated or reported.
C8_ConnectRetryThenFatal ==
    /\ attempt \in 1..max_retries
    /\ Len(slept) = attempt - 1
    /\ \A k \in DOMAIN slept : slept[k] = retry_delay
    /\ pc \in LoopPcs \cup TeardownPcs => conn # "none"
    /\ (pc = "fatal") <=> (fatal # "none")
    /\ pc = "fatal" =>
          /\ conn = "none"
          /\ fatal = "OperationalError" => attempt = max_retries
          /\ generated = 0 /\ in_flight = 0 /\ handed = 0
          /\ event = <<>> /\ event_count = 0
          /\ stat_reports = <<>> /\ final_report = <<>>
          /\ \A i \in Players : PLAYER_POOL[i].total_points = 0

\* the tenth attempt failed after nine sleeps
C8_Witness ==
    /\ pc = "fatal"
    /\ fatal = "OperationalError"
    /\ attempt = max_retries
    /\ Len(slept) = max_retries - 1
    /\ Len(PLAYER_POOL) = size

\* C9: once the loop has ended, by KeyboardInterrupt or by an exception, the
\* final statistics are printed with event_count as it then is, after that
\* the connection is closed and main returns; nothing is generated, counted
\* or inserted any more.
C9_TeardownRuns ==
    /\ (ended # "none") ~> (pc = "done")
    /\ [](pc \in TeardownPcs <=> ended # "none")
    /\ [](pc = "finally" => final_report = <<>> /\ conn = "open")
    /\ [](pc = "close" => final_report = <<event_count>> /\ conn = "open")
    /\ [](pc = "done" => final_report = <<event_count>> /\ conn = "closed")
    /\ [][ended # "none" =>
            /\ PLAYER_POOL' = PLAYER_POOL /\ event' = event
            /\ event_count' = event_count /\ generated' = generated
            /\ handed' = handed /\ committed' = committed
            /\ ended' = ended]_vars

\* main has returned after an exception in the second iteration
C9_Witness ==
    /\ pc = "done"
    /\ ended = "Exception"
    /\ generated = 2 /\ event_count = 1
    /\ final_report = <<1>>
    /\ conn = "closed"

\* C10: at teardown no player carries a mutation that is not that of a
\* returned event, and every returned event was handed to insert_event.
C10_NoPartialEventAtTeardown ==
    pc \in TeardownPcs =>
        /\ \A i \in Players : PLAYER_POOL[i].total_points = event_points[i]
        /\ handed = generated

\* C11: a generate_event call changes one player and nothing else. The call
\* that returns changes the player its event names; the other players are as
\* they were, every player keeps its id and name, the pool keeps its length
\* and order, and the connection and event_count are untouched. No step of
\* the loop, a call cut short included, changes more than one player.
C11_OnlySelectedPlayerChanges ==
    [][/\ generated' = generated + 1 =>
            LET e == event'[1]
            IN  /\ Cardinality(Holders(PLAYER_POOL', e)) = 1
                /\ \A i \in Players :
                      i \notin Holders(PLAYER_POOL', e) =>
                          PLAYER_POOL'[i] = PLAYER_POOL[i]
                /\ conn' = conn /\ event_count' = event_count
       /\ pc \in LoopPcs =>
            /\ Len(PLAYER_POOL') = Len(PLAYER_POOL)
            /\ \A i \in Players :
                  /\ PLAYER_POOL'[i].player_id = PLAYER_POOL[i].player_id
                  /\ PLAYER_POOL'[i].player_name = PLAYER_POOL[i].player_name
            /\ Cardinality({i \in Players : PLAYER_POOL'[i] # PLAYER_POOL[i]}) <= 1]_vars

\* the first player has two kills, the second is as init_player_pool made it
C11_Witness ==
    /\ pc = "insert" /\ generated = 2
    /\ Len(PLAYER_POOL) = 2
    /\ PLAYER_POOL[1].kills = 2
    /\ PLAYER_POOL[2] = NewPlayer(1, "trinity", INIT_LEVEL_MAX)

\* C12: the event generate_event returned carries the id, the name and the
\* level its player has in the pool after the call, the level-up rule of
\* this event applied.
C12_EventCarriesLevelAfterCall ==
    (event # <<>> /\ in_flight = 0) =>
        \E i \in Players :
            /\ Holders(PLAYER_POOL, event[1]) = {i}
            /\ event[1].level = PLAYER_POOL[i].level
            /\ event[1].player_id = PLAYER_POOL[i].player_id
            /\ event[1].player_name = PLAYER_POOL[i].player_name

\* a level_up event on a player created at level 1 is returned with level 2
C12_Witness ==
    /\ pc = "insert"
    /\ event[1].action_type = "level_up"
    /\ event[1].level = INIT_LEVEL_MIN + 1
    /\ \E i \in Players : /\ PLAYER_POOL[i].player_id = event[1].player_id
                          /\ PLAYER_POOL[i].level = INIT_LEVEL_MIN + 1

\* C13: the level-up rule of one returned event. A level_up action, or a
\* roll that fired, on a player below 100 raises the level by exactly 1,
\* also when both hold; neither of them leaves the level as it was; a player
\* at 100 stays at 100.
C13_LevelUpRule ==
    [][generated' = generated + 1 =>
        \A i \in Holders(PLAYER_POOL', event'[1]) :
            LET old == PLAYER_POOL[i].level
                new == PLAYER_POOL'[i].level
                up  == event'[1].action_type = "level_up"
            IN  /\ (up \/ rolled') /\ old < LEVEL_CAP => new = old + 1
                /\ ~up /\ ~rolled' => new = old
                /\ old = LEVEL_CAP => new = LEVEL_CAP
                /\ event'[1].level = new]_vars

\* a lone player created at level 50: 49 level_up events took it to 99, the
\* next level_up to 100, and one more level_up whose roll fired as well left
\* it at 100
C13_Witness ==
    /\ pc = "insert" /\ size = 1 /\ budget = MaxEvents - 2
    /\ generated = LEVEL_CAP - INIT_LEVEL_MAX + 1
    /\ event[1].action_type = "level_up" /\ rolled
    /\ PLAYER_POOL[1].level = LEVEL_CAP
    /\ PLAYER_POOL[1].total_points =
          generated * ACTION_TYPES["level_up"].points_range[1]

\* C14: every returned event has one of the seven action types of the
\* catalog and points within that action's inclusive range; a death is worth
\* -25..-10 and a kill 10..30, so total_points can go below zero.
C14_ActionAndPointsInCatalog ==
    /\ Cardinality(DOMAIN ACTION_TYPES) = 7
    /\ ACTION_TYPES["death"].points_range = <<-25, -10>>
    /\ ACTION_TYPES["kill"].points_range = <<10, 30>>
    /\ event # <<>> =>
         /\ event[1].action_type \in DOMAIN ACTION_TYPES
         /\ event[1].points \in Int
         /\ event[1].points >= ACTION_TYPES[event[1].action_type].points_range[1]
         /\ event[1].points <= ACTION_TYPES[event[1].action_type].points_range[2]

\* a death worth -25 has taken its player below zero
C14_Witness ==
    /\ pc = "insert"
    /\ event[1].action_type = "death" /\ event[1].points = -25
    /\ \E i \in Holders(PLAYER_POOL, event[1]) : PLAYER_POOL[i].total_points < 0

(*********************** the weighted draw alone ***************************)
\* the first generate_event call of a run, stopped before line 176: one
\* player, the connection open, nothing generated yet
InitChoice ==
    /\ top_lines = <<>>
    /\ max_tries = max_retries
    /\ pc = "choices"
    /\ choice = <<>>
    /\ rolled = FALSE
    /\ size = 1
    /\ PLAYER_POOL \in NewPools(1)
    /\ attempt = 1
    /\ slept = <<>>
    /\ conn = "open"
    /\ fatal = "none"
    /\ event = <<>>
    /\ event_count = 0
    /\ stat_reports = <<>>
    /\ final_report = <<>>
    /\ ended = "none"
    /\ budget = MaxEvents
    /\ generated = 0
    /\ handed = 0
    /\ committed = 0
    /\ write_failed = 0
    /\ event_points = [j \in 1..1 |-> 0]
    /\ in_flight = 0

SpecChoice == InitChoice /\ [][ChooseAction]_vars

\* C15: the action type is drawn with probability weight / sum of weights:
\* of the 100 equally likely cells, each action takes as many as its weight
\* (35 kill, 35 death, 10 headshot, 8 assist, 7 achievement, 3 level_up,
\* 2 defuse_bomb), so every action of positive weight can be drawn.
C15_WeightedChoice ==
    /\ TotalWeight = 100
    /\ weights = <<35, 35, 10, 8, 7, 3, 2>>
    /\ \A a \in DOMAIN ACTION_TYPES :
          Cardinality({r \in Cells : Choices(r) = a}) = ACTION_TYPES[a].weight
    /\ {Choices(r) : r \in Cells} = ActionDraws
    /\ ActionDraws = DOMAIN ACTION_TYPES
    /\ choice # <<>> =>
          /\ choice[1].action_type \in DOMAIN ACTION_TYPES
          /\ ACTION_TYPES[choice[1].action_type].weight > 0
          /\ \E k \in 1..Len(action_types) :
                /\ action_types[k] = choice[1].action_type
                /\ CumWeight(k) - weights[k] <= choice[1].cell
                /\ choice[1].cell < CumWeight(k)

\* the last cell draws the rarest action
C15_Witness ==
    /\ pc = "points"
    /\ choice = <<[cell |-> TotalWeight - 1, action_type |-> "defuse_bomb"]>>

(******************* connect_to_db with any max_retries ********************)
\* main calls connect_to_db() with its defaults; here the argument is any of
\* 1..MaxRetriesArg
InitConnect ==
    /\ top_lines = <<>>
    /\ max_tries \in 1..MaxRetriesArg
    /\ choice = <<>>
    /\ rolled = FALSE
    /\ pc = "init"
    /\ size \in 1..MaxPool
    /\ PLAYER_POOL = <<>>
    /\ attempt = 1
    /\ slept = <<>>
    /\ conn = "none"
    /\ fatal = "none"
    /\ event = <<>>
    /\ event_count = 0
    /\ stat_reports = <<>>
    /\ final_report = <<>>
    /\ ended = "none"
    /\ budget = MaxEvents
    /\ generated = 0
    /\ handed = 0
    /\ committed = 0
    /\ write_failed = 0
    /\ event_points = <<>>
    /\ in_flight = 0

SpecConnect == InitConnect /\ [][InitPlayerPool \/ ConnectToDb]_vars

\* C18: connect_to_db(max_retries, retry_delay), max_retries >= 1: at most
\* max_retries attempts; the first success returns the connection and ends
\* the attempts; retry_delay is slept only after a failure that is not the
\* last; the max_retries-th OperationalError is raised; any other exception
\* is raised at once; the function never returns without a connection.
C18_ConnectToDbContract ==
    [][pc = "connect" =>
        /\ attempt \in 1..max_tries
        /\ Len(slept) = attempt - 1
        /\ conn' = "open" => pc' = "generate" /\ conn = "none"
        /\ pc' = "generate" => conn' = "open"
        /\ slept' # slept /\ pc' = "connect" =>
              /\ attempt < max_tries
              /\ slept' = Append(slept, retry_delay)
              /\ attempt' = attempt + 1
              /\ conn' = "none"
        /\ pc' = "fatal" =>
              /\ conn' = "none" /\ slept' = slept
              /\ fatal' \in {"OperationalError", "OtherError"}
              /\ fatal' = "OperationalError" => attempt = max_tries
        /\ pc' \in {"connect", "generate", "fatal"}]_vars

\* a call with max_retries = MaxRetriesArg failed that many times and raised
C18_Witness ==
    /\ pc = "fatal" /\ fatal = "OperationalError"
    /\ max_tries = MaxRetriesArg /\ max_tries # max_retries
    /\ attempt = max_tries
    /\ Len(slept) = max_tries - 1

(********************** the statistics report alone ************************)
\* what a player went through before the report: nothing, a death, a kill,
\* or a kill and a death that cancel out
StatsHistories ==
    {<<>>,
     <<[a |-> "death", points |-> ACTION_TYPES["death"].points_range[2]]>>,
     <<[a |-> "kill", points |-> ACTION_TYPES["kill"].points_range[1]]>>,
     <<[a |-> "kill", points |-> ACTION_TYPES["kill"].points_range[1]],
       [a |-> "death", points |-> ACTION_TYPES["death"].points_range[2]]>>}

\* the player after the generate_event calls of h, none of whose rolls fired
RECURSIVE AfterEvents(_, _)
AfterEvents(p, h) ==
    IF h = <<>> THEN p
    ELSE AfterEvents(Mutate(p, h[1].a, h[1].points, FALSE, 3), Tail(h))

RECURSIVE EventsIn(_, _)
EventsIn(hs, n) == IF n = 0 THEN 0 ELSE EventsIn(hs, n - 1) + Len(hs[n])

\* the loop was stopped by Ctrl+C between two iterations and main is about
\* to run its finally block; the players were served one after the other
\* and every insert failed
InitStats ==
    /\ pc = "finally"
    /\ ended = "KeyboardInterrupt"
    /\ size \in 1..MaxStatsPool
    /\ \E hs \in [1..size -> StatsHistories] :
         LET pool == [i \in 1..size |->
                        AfterEvents(NewPlayer(i - 1, "neo", INIT_LEVEL_MIN), hs[i])]
             served == {i \in 1..size : hs[i] # <<>>}
             last == CHOOSE i \in served : \A j \in served : j <= i
         IN  /\ PLAYER_POOL = pool
             /\ event_points = [i \in 1..size |-> pool[i].total_points]
             /\ generated = EventsIn(hs, size)
             /\ event = IF served = {} THEN <<>>
                        ELSE LET e == hs[last][Len(hs[last])]
                             IN  <<MakeEvent(pool[last], e.a, e.points,
                                             WeaponFor(e.a, WEAPONS[1]), MAPS[1])>>
    /\ handed = generated
    /\ write_failed = generated
    /\ committed = 0
    /\ event_count = 0
    /\ budget = 0
    /\ top_lines = <<>>
    /\ max_tries = max_retries
    /\ choice = <<>>
    /\ rolled = FALSE
    /\ attempt = 1
    /\ slept = <<>>
    /\ conn = "open"
    /\ fatal = "none"
    /\ stat_reports = <<>>
    /\ final_report = <<>>
    /\ in_flight = 0

SpecStats == InitStats /\ [][FinalStats \/ CloseConn]_vars

\* C16: the report lists the min(3, pool size) players of highest
\* total_points, highest first, players of equal total_points in pool
\* order, and leaves the pool and its players as they were.
C16_TopThreeStableDescending ==
    [][pc = "finally" =>
        LET T == top_lines'
            pool == PLAYER_POOL
            Idx(k) == CHOOSE i \in 1..Len(pool) :
                         pool[i].player_id = T[k].player.player_id
            Before(i, j) ==
                \/ pool[i].total_points > pool[j].total_points
                \/ pool[i].total_points = pool[j].total_points /\ i < j
        IN  /\ PLAYER_POOL' = PLAYER_POOL
            /\ Len(T) = IF Len(pool) < 3 THEN Len(pool) ELSE 3
            /\ \A k \in 1..Len(T) : T[k].player = pool[Idx(k)]
            /\ \A k, l \in 1..Len(T) : k < l => Before(Idx(k), Idx(l))
            /\ \A i \in 1..Len(pool) :
                  (\A k \in 1..Len(T) : Idx(k) # i) =>
                      \A k \in 1..Len(T) : Before(Idx(k), i)]_vars

\* four players, three listed: the second and third are level on points
\* and differ in kills, and the player left out is level with them
C16_Witness ==
    /\ pc = "close"
    /\ Len(PLAYER_POOL) = 4 /\ Len(top_lines) = 3
    /\ top_lines[2].player.total_points = top_lines[3].player.total_points
    /\ top_lines[2].player.kills # top_lines[3].player.kills
    /\ top_lines[3].player = PLAYER_POOL[3]
    /\ PLAYER_POOL[4].total_points = PLAYER_POOL[3].total_points

\* C19: the K/D printed for a player is kills / deaths when deaths > 0 and
\* kills when deaths = 0; no player the program can hold makes the report
\* divide by zero.
C19_KdRatioNeverDividesByZero ==
    /\ \A k \in 1..Len(top_lines) :
          LET p == top_lines[k].player
              r == top_lines[k].kd_ratio
          IN  /\ "error" \notin DOMAIN r
              /\ r.den > 0
              /\ p.deaths > 0 => r.num = p.kills /\ r.den = p.deaths
              /\ p.deaths = 0 => r.num = p.kills /\ r.den = 1
    /\ \A i \in Players :
          /\ PLAYER_POOL[i].deaths >= 0
          /\ "error" \notin DOMAIN KdRatio(PLAYER_POOL[i])

\* the report lists a player with a kill and no death and one with a death
C19_Witness ==
    /\ pc = "close"
    /\ \E k, l \in 1..Len(top_lines) :
          /\ top_lines[k].player.deaths = 0 /\ top_lines[k].player.kills = 1
          /\ top_lines[k].kd_ratio = [num |-> 1, den |-> 1]
          /\ top_lines[l].player.deaths = 1
          /\ top_lines[l].kd_ratio.den = 1

(******************* the loop around the 50th insert ***********************)
\* the numbers of inserted events one before a periodic report and at it
PeriodRuns == {STATS_PERIOD - 1, STATS_PERIOD}

\* The loop after n iterations that each chose the first player and level_up
\* and whose insert was committed; the 50th of them printed the report.
InitPeriod ==
    /\ pc = "generate"
    /\ size \in 1..MaxPool
    /\ \E n \in PeriodRuns :
         \E pool \in NewPools(size) :
            LET p == AfterLevelUps(pool[1], n)
                now == [pool EXCEPT ![1] = p]
            IN  /\ PLAYER_POOL = now
                /\ event = <<MakeEvent(p, "level_up",
                                       ACTION_TYPES["level_up"].points_range[1],
                                       WeaponFor("level_up", WEAPONS[1]), MAPS[1])>>
                /\ event_points =
                     [i \in 1..size |-> IF i = 1 THEN p.total_points ELSE 0]
                /\ generated = n
                /\ handed = n
                /\ committed = n
                /\ event_count = n
                /\ stat_reports = IF ReportDue(TRUE, n) THEN <<n>> ELSE <<>>
                /\ top_lines = IF ReportDue(TRUE, n) THEN TopLines(now) ELSE <<>>
    /\ write_failed = 0
    /\ budget = MaxEvents
    /\ max_tries = max_retries
    /\ choice = <<>>
    /\ rolled = FALSE
    /\ attempt = 1
    /\ slept = <<>>
    /\ conn = "open"
    /\ fatal = "none"
    /\ final_report = <<>>
    /\ ended = "none"
    /\ in_flight = 0

SpecPeriod == InitPeriod /\ [][LoopNext]_vars

\* C17: the periodic report is printed only by an iteration whose insert
\* succeeded and brought event_count to a positive multiple of 50, and by
\* every such iteration that runs to its end; an iteration whose insert
\* failed prints none, so no multiple of 50 is reported twice.
C17_PeriodicReport ==
    [][/\ stat_reports' # stat_reports =>
            /\ pc = "insert"
            /\ committed' = committed + 1
            /\ event_count' = event_count + 1
            /\ event_count' > 0 /\ event_count' % 50 = 0
            /\ stat_reports' = Append(stat_reports, event_count')
       /\ (/\ pc = "insert" /\ pc' = "sleep"
           /\ event_count' = event_count + 1
           /\ event_count' % 50 = 0) =>
            stat_reports' = Append(stat_reports, event_count')
       /\ write_failed' = write_failed + 1 => stat_reports' = stat_reports
       /\ \A i, j \in 1..Len(stat_reports') :
             i < j => stat_reports'[i] < stat_reports'[j]]_vars

\* the 50th insert was reported once; the insert after it failed, event_count
\* is still 50 and there is still one report
C17_Witness ==
    /\ pc = "sleep"
    /\ event_count = 50 /\ committed = 50
    /\ write_failed = 1
    /\ stat_reports = <<50>>
    /\ generated = 51 /\ budget = MaxEvents - 2

====
